---------------------------- MODULE Spec2Model ----------------------------
(***************************************************************************)
(* A model of presburger::MPInt (include/MPInt.h, src/MPInt.cpp), its      *)
(* arbitrary-precision fallback detail::SlowMPInt (include/SlowMPInt.h,    *)
(* src/SlowMPInt.cpp, over GMP's mpz_t) and the word helpers of            *)
(* include/Math.h.                                                         *)
(*                                                                         *)
(* The native word int64_t is modelled at WordBits bits in two's           *)
(* complement; every word computation is reduced modulo 2^WordBits where   *)
(* the C++ computation is.  A GMP integer is modelled by its mathematical  *)
(* value.  A client holds two Values x and y, applies one operation of     *)
(* the public interface at a time and keeps its result in r.               *)
(***************************************************************************)
EXTENDS Integers, Sequences, FiniteSets, TLC

\* Width of the native word (int64_t in the source).
WordBits == 4

RECURSIVE Pow2(_)
Pow2(n) == IF n = 0 THEN 1 ELSE 2 * Pow2(n - 1)

WordMod == Pow2(WordBits)
\* std::numeric_limits<int64_t>::min() and ::max()
MIN_WORD == 0 - Pow2(WordBits - 1)
MAX_WORD == Pow2(WordBits - 1) - 1
Words == MIN_WORD .. MAX_WORD

\* Large values the model follows: operations whose exact result is larger
\* in magnitude are not taken.
MaxMag == WordMod

AbsInt(i) == IF i < 0 THEN 0 - i ELSE i
Sgn(i) == IF i < 0 THEN 0 - 1 ELSE IF i > 0 THEN 1 ELSE 0

(***************************************************************************)
(* Native word arithmetic.                                                 *)
(***************************************************************************)
\* static_cast<U>(X): the bit pattern of a signed word read as unsigned.
ToUnsigned(i) == i % WordMod
\* static_cast<T>(U): the bit pattern of an unsigned word read as signed.
ToSigned(u) == IF (u % WordMod) >= Pow2(WordBits - 1)
               THEN (u % WordMod) - WordMod ELSE u % WordMod
\* The value a signed word expression takes in two's complement.
Wrap(i) == ToSigned(i % WordMod)

\* C++ integer division and remainder: rounding toward zero, the remainder
\* taking the sign of the dividend.  rhs # 0.
TruncDiv(lhs, rhs) == Sgn(lhs) * Sgn(rhs) * (AbsInt(lhs) \div AbsInt(rhs))
TruncRem(lhs, rhs) == lhs - rhs * TruncDiv(lhs, rhs)

\* __builtin_add_overflow and friends: the exact result reduced to the word,
\* and whether the exact result is outside the word.
BuiltinOverflow(exact) ==
    [Result |-> Wrap(exact), overflow |-> exact \notin Words]

\* math::AddOverflow, portable branch.
AddOverflow(X, Y) ==
    LET UResult == (ToUnsigned(X) + ToUnsigned(Y)) % WordMod
        Result  == ToSigned(UResult)
    IN  [Result   |-> Result,
         overflow |-> IF X > 0 /\ Y > 0 THEN Result <= 0
                      ELSE IF X < 0 /\ Y < 0 THEN Result >= 0
                      ELSE FALSE]

\* math::SubOverflow, portable branch.
SubOverflow(X, Y) ==
    LET UResult == (ToUnsigned(X) - ToUnsigned(Y)) % WordMod
        Result  == ToSigned(UResult)
    IN  [Result   |-> Result,
         overflow |-> IF X <= 0 /\ Y > 0 THEN Result >= 0
                      ELSE IF X >= 0 /\ Y < 0 THEN Result <= 0
                      ELSE FALSE]

\* math::MulOverflow with the bound of a positive product taken for a
\* negative one as well.
MulOverflowOneBound(X, Y) ==
    LET UX == IF X < 0 THEN (0 - ToUnsigned(X)) % WordMod ELSE ToUnsigned(X)
        UY == IF Y < 0 THEN (0 - ToUnsigned(Y)) % WordMod ELSE ToUnsigned(Y)
        UResult    == (UX * UY) % WordMod
        IsNegative == (X < 0) # (Y < 0)
        Result     == ToSigned(IF IsNegative THEN (0 - UResult) % WordMod
                                             ELSE UResult)
    IN  [Result   |-> Result,
         overflow |-> IF UX = 0 \/ UY = 0 THEN FALSE
                      ELSE UX > ToUnsigned(MAX_WORD) \div UY]

\* math::MulOverflow.
MulOverflow(X, Y) ==
    LET UX == IF X < 0 THEN (0 - ToUnsigned(X)) % WordMod ELSE ToUnsigned(X)
        UY == IF Y < 0 THEN (0 - ToUnsigned(Y)) % WordMod ELSE ToUnsigned(Y)
        UResult    == (UX * UY) % WordMod
        IsNegative == (X < 0) # (Y < 0)
        Result     == ToSigned(IF IsNegative THEN (0 - UResult) % WordMod
                                             ELSE UResult)
    IN  [Result   |-> Result,
         overflow |-> IF UX = 0 \/ UY = 0 THEN FALSE
                      ELSE IF IsNegative
                           THEN UX > ((ToUnsigned(MAX_WORD) + 1) % WordMod) \div UY
                           ELSE UX > ToUnsigned(MAX_WORD) \div UY]

\* detail::addOverflow, subOverflow, mulOverflow: the intrinsic where the
\* compiler has it, the portable function otherwise.  Both are kept: the
\* set of the results a build can give.
addOverflow(x, y) == {BuiltinOverflow(x + y), AddOverflow(x, y)}
subOverflow(x, y) == {BuiltinOverflow(x - y), SubOverflow(x, y)}
mulOverflow(x, y) == {BuiltinOverflow(x * y), MulOverflow(x, y)}

\* math::ceilDiv on words; every intermediate is a word.  rhs # 0.
ceilDivWord(lhs, rhs) ==
    LET x == IF rhs > 0 THEN 0 - 1 ELSE 1
    IN  IF lhs # 0 /\ ((lhs > 0) = (rhs > 0))
        THEN Wrap(TruncDiv(Wrap(lhs + x), rhs) + 1)
        ELSE Wrap(0 - TruncDiv(Wrap(0 - lhs), rhs))

\* math::floorDiv on words; every intermediate is a word.  rhs # 0.
floorDivWord(lhs, rhs) ==
    LET x == IF rhs < 0 THEN 1 ELSE 0 - 1
    IN  IF lhs # 0 /\ ((lhs < 0) # (rhs < 0))
        THEN Wrap(Wrap(0 - TruncDiv(Wrap(Wrap(0 - lhs) + x), rhs)) - 1)
        ELSE TruncDiv(lhs, rhs)

\* math::mod on words.  rhs >= 1.
modWord(lhs, rhs) ==
    IF TruncRem(lhs, rhs) < 0 THEN Wrap(TruncRem(lhs, rhs) + rhs)
    ELSE TruncRem(lhs, rhs)

\* Euclid's algorithm on non-negative integers.
RECURSIVE Euclid(_, _)
Euclid(a, b) == IF b = 0 THEN a ELSE Euclid(b, a % b)

\* std::gcd on words: the greatest common divisor of |m| and |n|.
stdGcd(m, n) == Euclid(AbsInt(m), AbsInt(n))

\* detail::divWouldOverflow
divWouldOverflow(x, y) == x = MIN_WORD /\ y = 0 - 1


(***************************************************************************)
(* GMP (gmp.h), by the mathematical value of an mpz_t.                     *)
(***************************************************************************)
FloorDivInt(n, d) == IF d > 0 THEN n \div d ELSE (0 - n) \div (0 - d)
CeilDivInt(n, d)  == 0 - FloorDivInt(0 - n, d)

mpz_tdiv_q(n, d) == TruncDiv(n, d)
mpz_cdiv_q(n, d) == CeilDivInt(n, d)
mpz_fdiv_q(n, d) == FloorDivInt(n, d)
\* mpz_mod: the sign of the divisor is ignored, the result is non-negative.
mpz_mod(n, d)    == n % AbsInt(d)
mpz_gcd(a, b)    == Euclid(AbsInt(a), AbsInt(b))

\* mpz_get_ui in the place of mpz_get_si: the low bits of the magnitude,
\* the sign dropped.
mpz_get_si_magnitude(v) == (AbsInt(v) % WordMod) % Pow2(WordBits - 1)

\* mpz_get_si: the value when it fits a signed long; otherwise the low
\* WordBits-1 bits of the magnitude with the sign of the value.
mpz_get_si(v) ==
    IF v >= 0 THEN (v % WordMod) % Pow2(WordBits - 1)
    ELSE 0 - 1 - ((((AbsInt(v) % WordMod) - 1) % WordMod) % Pow2(WordBits - 1))

\* The limbs (mp_limb_t, as wide as the word) of a magnitude, least
\* significant first; zero has none (_mp_size = 0).
RECURSIVE Limbs(_)
Limbs(n) == IF n = 0 THEN <<>> ELSE <<n % WordMod>> \o Limbs(n \div WordMod)

\* std::hash<std::string_view> over the bytes of a limb sequence: an
\* injective numbering of the sequences, so that only equal byte strings
\* hash alike.
RECURSIVE HashView(_)
HashView(s) == IF s = <<>> THEN 0
               ELSE 1 + s[1] + (WordMod + 1) * HashView(Tail(s))

(***************************************************************************)
(* detail::SlowMPInt.  A SlowMPInt is its value; an operation yields the   *)
(* set of its possible outcomes [ok, v]: ok = FALSE is the process         *)
(* terminated (a failed assert of the debug build, GMP's division by       *)
(* zero, a fault).                                                         *)
(***************************************************************************)
SDone(i) == [ok |-> TRUE, v |-> i]
SAbort   == [ok |-> FALSE, v |-> 0]

\* What a read of storage that was never initialised can stand for.
Garbage == {0 - 1, 0, 1}

\* SlowMPInt::SlowMPInt(const SlowMPInt &): mpz_set into this->val, which no
\* mpz_init has initialised.  mpz_set reads _mp_alloc and _mp_d of the
\* destination: with an indeterminate _mp_alloc of 0 it allocates and the
\* copy is exact; with a larger one the limbs go through the indeterminate
\* _mp_d (a fault, or foreign memory that something else rewrites); with a
\* smaller one the indeterminate _mp_d is handed to realloc.
SlowMPIntCopy(v) == {SDone(v)} \cup {SDone(g) : g \in Garbage} \cup {SAbort}

\* SlowMPInt::operator+, -, *, unary -
SlowAdd(a, b) == {SDone(a + b)}
SlowSub(a, b) == {SDone(a - b)}
SlowMul(a, b) == {SDone(a * b)}
SlowNeg(a)    == {SDone(0 - a)}
\* SlowMPInt::operator/ : mpz_tdiv_q
SlowDiv(a, b) == IF b = 0 THEN {SAbort} ELSE {SDone(mpz_tdiv_q(a, b))}
\* SlowMPInt::operator% : mpz_mod
SlowRem(a, b) == IF b = 0 THEN {SAbort} ELSE {SDone(mpz_mod(a, b))}

\* detail::ceilDiv
slowCeilDiv(lhs, rhs) ==
    IF rhs = 0 - 1 THEN SlowNeg(lhs)
    ELSE IF rhs = 0 THEN {SAbort}
    ELSE {SDone(mpz_cdiv_q(lhs, rhs))}

\* detail::floorDiv
slowFloorDiv(lhs, rhs) ==
    IF rhs = 0 - 1 THEN SlowNeg(lhs)
    ELSE IF rhs = 0 THEN {SAbort}
    ELSE {SDone(mpz_fdiv_q(lhs, rhs))}

\* detail::mod
slowMod(lhs, rhs) ==
    IF ~(rhs >= 1) THEN {SAbort}
    ELSE IF mpz_mod(lhs, rhs) < 0 THEN {SDone(mpz_mod(lhs, rhs) + rhs)}
    ELSE {SDone(mpz_mod(lhs, rhs))}

\* detail::gcd
slowGcd(a, b) ==
    IF ~(a >= 0 /\ b >= 0) THEN {SAbort} ELSE {SDone(mpz_gcd(a, b))}

\* std::hash<SlowMPInt>::operator()
slowHash(v) ==
    LET result == HashView(Limbs(AbsInt(v)))
    IN  IF v < 0
        THEN (IF result % 2 = 0 THEN result + 1 ELSE result - 1)
        ELSE result

(***************************************************************************)
(* presburger::MPInt.  A Value is its discriminant holdsLarge and the      *)
(* value of the active member of the union: valSmall (a word) or           *)
(* valLarge (a SlowMPInt).  An operation yields the set of its possible    *)
(* outcomes [ok, v].                                                       *)
(***************************************************************************)
\* MPInt::MPInt(int64_t)
Small(w) == [holdsLarge |-> FALSE, val |-> w]
\* A Value holding a SlowMPInt of value v.
Large(v) == [holdsLarge |-> TRUE, val |-> v]
Done(m)  == [ok |-> TRUE, v |-> m]
Abort    == [ok |-> FALSE, v |-> Small(0)]

isSmall(m) == ~m.holdsLarge
isLarge(m) == m.holdsLarge

\* MPInt::operator detail::SlowMPInt: a small Value is converted by
\* SlowMPInt(int64_t) (mpz_init, mpz_set_si); a large one returns getLarge()
\* by value, through SlowMPInt's copy constructor.
toSlow(m) == IF isSmall(m) THEN {SDone(m.val)} ELSE SlowMPIntCopy(m.val)

\* MPInt::MPInt(const detail::SlowMPInt &): valLarge(val) runs SlowMPInt's
\* copy constructor on the union's storage.  S: the outcomes of the argument.
fromSlow(S) ==
    UNION { IF s.ok
            THEN { IF c.ok THEN Done(Large(c.v)) ELSE Abort :
                   c \in SlowMPIntCopy(s.v) }
            ELSE {Abort} : s \in S }

\* MPInt(F(detail::SlowMPInt(a), detail::SlowMPInt(b))): the fallback path of
\* a binary operation F of SlowMPInt.
slowPath(F(_, _), a, b) ==
    fromSlow(UNION { UNION { IF p.ok /\ q.ok THEN F(p.v, q.v) ELSE {SAbort} :
                             q \in toSlow(b) } : p \in toSlow(a) })

\* The outcomes of G applied to each outcome of S.
Bind(S, G(_)) == UNION { IF o.ok THEN G(o.v) ELSE {Abort} : o \in S }

\* A division the hardware cannot do (a zero divisor; MIN_WORD by -1 where the
\* quotient is not checked first): a trap, or a build that goes on with w.
wordDivFault(w) == {Abort, Done(Small(w))}

\* MPInt::MPInt(const MPInt &): initLarge on a Value that is small.
MPIntCopy(o) == IF isSmall(o) THEN {Done(Small(o.val))}
                ELSE fromSlow({SDone(o.val)})

\* MPInt::operator=(const MPInt &) with initSmall and initLarge: a large
\* source is placement-constructed over a small target (copy constructor),
\* and assigned member by member over a large one.
MPIntAssign(dst, src) ==
    IF isSmall(src) THEN {Done(Small(src.val))}
    ELSE IF isSmall(dst) THEN fromSlow({SDone(src.val)})
    ELSE {Done(Large(src.val))}

\* operator>=(const MPInt &, int64_t): getLarge() is compared in place,
\* against SlowMPInt(b).
MPIntGeWord(a, b) == a.val >= b

\* MPInt::operator-() const
MPIntNeg(a) ==
    IF isSmall(a) /\ a.val # MIN_WORD THEN {Done(Small(0 - a.val))}
    ELSE fromSlow(UNION { IF p.ok THEN SlowNeg(p.v) ELSE {SAbort} :
                          p \in toSlow(a) })

\* MPInt::operator+
MPIntAdd(a, b) ==
    IF isSmall(a) /\ isSmall(b)
    THEN UNION { IF ~res.overflow THEN {Done(Small(res.Result))}
                 ELSE slowPath(SlowAdd, a, b) : res \in addOverflow(a.val, b.val) }
    ELSE slowPath(SlowAdd, a, b)

\* MPInt::operator- (binary)
MPIntSub(a, b) ==
    IF isSmall(a) /\ isSmall(b)
    THEN UNION { IF ~res.overflow THEN {Done(Small(res.Result))}
                 ELSE slowPath(SlowSub, a, b) : res \in subOverflow(a.val, b.val) }
    ELSE slowPath(SlowSub, a, b)

\* MPInt::operator*
MPIntMul(a, b) ==
    IF isSmall(a) /\ isSmall(b)
    THEN UNION { IF ~res.overflow THEN {Done(Small(res.Result))}
                 ELSE slowPath(SlowMul, a, b) : res \in mulOverflow(a.val, b.val) }
    ELSE slowPath(SlowMul, a, b)

\* MPInt::operator/
MPIntDiv(a, b) ==
    IF isSmall(a) /\ isSmall(b)
    THEN IF divWouldOverflow(a.val, b.val) THEN MPIntNeg(a)
         ELSE IF b.val = 0 THEN wordDivFault(0)
         ELSE {Done(Small(TruncDiv(a.val, b.val)))}
    ELSE slowPath(SlowDiv, a, b)

\* MPInt::operator%
MPIntRem(a, b) ==
    IF isSmall(a) /\ isSmall(b)
    THEN IF b.val = 0 \/ divWouldOverflow(a.val, b.val) THEN wordDivFault(0)
         ELSE {Done(Small(TruncRem(a.val, b.val)))}
    ELSE slowPath(SlowRem, a, b)

\* MPInt::operator/=
MPIntDivAssign(a, b) ==
    LET store(t) == MPIntAssign(a, t)
    IN  IF isSmall(a) /\ isSmall(b)
        THEN IF divWouldOverflow(a.val, b.val) THEN Bind(MPIntNeg(a), store)
             ELSE IF b.val = 0 THEN wordDivFault(0)
             ELSE {Done(Small(TruncDiv(a.val, b.val)))}
        ELSE Bind(slowPath(SlowDiv, a, b), store)

\* abs(const MPInt &): MPInt(x >= 0 ? x : -x)
abs(a) == IF MPIntGeWord(a, 0) THEN MPIntCopy(a) ELSE MPIntNeg(a)

\* ceilDiv(const MPInt &, const MPInt &)
ceilDiv(lhs, rhs) ==
    IF isSmall(lhs) /\ isSmall(rhs)
    THEN IF divWouldOverflow(lhs.val, rhs.val) THEN MPIntNeg(lhs)
         ELSE IF rhs.val = 0 THEN {Abort}
         ELSE {Done(Small(ceilDivWord(lhs.val, rhs.val)))}
    ELSE slowPath(slowCeilDiv, lhs, rhs)

\* floorDiv(const MPInt &, const MPInt &)
floorDiv(lhs, rhs) ==
    IF isSmall(lhs) /\ isSmall(rhs)
    THEN IF divWouldOverflow(lhs.val, rhs.val) THEN MPIntNeg(lhs)
         ELSE IF rhs.val = 0 THEN {Abort}
         ELSE {Done(Small(floorDivWord(lhs.val, rhs.val)))}
    ELSE slowPath(slowFloorDiv, lhs, rhs)

\* mod(const MPInt &, const MPInt &)
mod(lhs, rhs) ==
    IF isSmall(lhs) /\ isSmall(rhs)
    THEN IF ~(rhs.val >= 1) THEN {Abort}
         ELSE {Done(Small(modWord(lhs.val, rhs.val)))}
    ELSE slowPath(slowMod, lhs, rhs)

\* gcd(const MPInt &, const MPInt &)
gcd(a, b) ==
    IF ~(MPIntGeWord(a, 0) /\ MPIntGeWord(b, 0)) THEN {Abort}
    ELSE IF isSmall(a) /\ isSmall(b)
    THEN {Done(Small(stdGcd(a.val, b.val)))}
    ELSE slowPath(slowGcd, a, b)

\* lcm(const MPInt &, const MPInt &): x = abs(a); y = abs(b);
\* (x * y) / gcd(x, y)
lcm(a, b) ==
    LET quot(xx, yy) ==
            UNION { UNION { IF p.ok /\ g.ok THEN MPIntDiv(p.v, g.v) ELSE {Abort} :
                            g \in gcd(xx, yy) } : p \in MPIntMul(xx, yy) }
    IN  UNION { UNION { IF xo.ok /\ yo.ok THEN quot(xo.v, yo.v) ELSE {Abort} :
                        yo \in abs(b) } : xo \in abs(a) }

\* MPInt::operator int64_t, int64FromMPInt
int64FromMPInt(m) == IF isSmall(m) THEN m.val ELSE mpz_get_si(m.val)
\* mpintFromInt64
mpintFromInt64(w) == Small(w)

\* hash_value(int64_t) of the word held by a small Value: the hash of the
\* bytes of the word.
hashWord(w) == HashView(<<ToUnsigned(w)>>)

\* presburger::hash_value(const MPInt &)
hash_value(m) == IF isSmall(m) THEN hashWord(m.val) ELSE slowHash(m.val)

\* The comparison named by name on two integers: mpz_cmp(a, b) against 0, and
\* the built-in comparison of two words.
Cmp(name, a, b) ==
    CASE name = "==" -> a = b
      [] name = "!=" -> a # b
      [] name = ">"  -> a > b
      [] name = "<"  -> a < b
      [] name = "<=" -> a <= b
      [] name = ">=" -> a >= b

CmpOps == {"==", "!=", ">", "<", "<=", ">="}

\* SlowMPInt::operator==, !=, >, <, <=, >= : mpz_cmp on the two operands in
\* place.
SlowCmp(name, a, b) == Cmp(name, a, b)

\* MPInt::operator==, !=, >, <, <=, >= : the words when both operands are
\* small, else detail::SlowMPInt(*this) <cmp> detail::SlowMPInt(o).  The
\* outcomes are [ok, v] with v a truth value.
MPIntCmp(name, a, b) ==
    IF isSmall(a) /\ isSmall(b)
    THEN {[ok |-> TRUE, v |-> Cmp(name, a.val, b.val)]}
    ELSE UNION { { IF p.ok /\ q.ok
                   THEN [ok |-> TRUE, v |-> SlowCmp(name, p.v, q.v)]
                   ELSE [ok |-> FALSE, v |-> FALSE] :
                   q \in toSlow(b) } : p \in toSlow(a) }

\* operator<cmp>(const MPInt &a, int64_t b): a.getSmall() <cmp> b, or
\* a.getLarge() <cmp> b, which is a.getLarge() <cmp> SlowMPInt(b) in place.
MPIntCmpWord(name, a, b) ==
    IF isSmall(a) THEN Cmp(name, a.val, b) ELSE SlowCmp(name, a.val, b)

\* operator<cmp>(int64_t a, const MPInt &b)
WordCmpMPInt(name, a, b) ==
    IF isSmall(b) THEN Cmp(name, a, b.val) ELSE SlowCmp(name, a, b.val)

\* MPInt::divByPositive: assert(o > 0) compares o in place.
divByPositive(a, o) ==
    IF ~MPIntCmpWord(">", o, 0) THEN {Abort}
    ELSE IF isSmall(a) /\ isSmall(o)
    THEN {Done(Small(TruncDiv(a.val, o.val)))}
    ELSE slowPath(SlowDiv, a, o)

\* MPInt::divByPositiveInPlace
divByPositiveInPlace(a, o) ==
    LET store(t) == MPIntAssign(a, t)
    IN  IF ~MPIntCmpWord(">", o, 0) THEN {Abort}
        ELSE IF isSmall(a) /\ isSmall(o)
        THEN {Done(Small(TruncDiv(a.val, o.val)))}
        ELSE Bind(slowPath(SlowDiv, a, o), store)

\* MPInt::operator+=
MPIntAddAssign(a, b) ==
    LET store(t) == MPIntAssign(a, t)
    IN  IF isSmall(a) /\ isSmall(b)
        THEN UNION { IF ~res.overflow THEN {Done(Small(res.Result))}
                     ELSE Bind(slowPath(SlowAdd, a, b), store) :
                     res \in addOverflow(a.val, b.val) }
        ELSE Bind(slowPath(SlowAdd, a, b), store)

\* MPInt::operator-=
MPIntSubAssign(a, b) ==
    LET store(t) == MPIntAssign(a, t)
    IN  IF isSmall(a) /\ isSmall(b)
        THEN UNION { IF ~res.overflow THEN {Done(Small(res.Result))}
                     ELSE Bind(slowPath(SlowSub, a, b), store) :
                     res \in subOverflow(a.val, b.val) }
        ELSE Bind(slowPath(SlowSub, a, b), store)

\* MPInt::operator*=
MPIntMulAssign(a, b) ==
    LET store(t) == MPIntAssign(a, t)
    IN  IF isSmall(a) /\ isSmall(b)
        THEN UNION { IF ~res.overflow THEN {Done(Small(res.Result))}
                     ELSE Bind(slowPath(SlowMul, a, b), store) :
                     res \in mulOverflow(a.val, b.val) }
        ELSE Bind(slowPath(SlowMul, a, b), store)

\* MPInt::operator%= : *this = *this % o
MPIntRemAssign(a, b) ==
    LET store(t) == MPIntAssign(a, t)
    IN  Bind(MPIntRem(a, b), store)

(***************************************************************************)
(* Storage.  The limb buffers GMP allocates, and the bytes of the union    *)
(* of each MPInt object.  valSmall overlays _mp_alloc and _mp_size of      *)
(* valLarge.val, and _mp_d lies behind them: writing valSmall leaves _mp_d *)
(* as it was.  A stored Value is                                           *)
(*   alive      the object has been constructed and not destroyed,         *)
(*   holdsLarge the discriminant,                                          *)
(*   active     the member of the union that was last constructed,         *)
(*   small      the word in valSmall (read as _mp_alloc by GMP),           *)
(*   ptr        the buffer _mp_d points to; 0 when the bytes of _mp_d      *)
(*              were never written (an indeterminate pointer).             *)
(* A buffer is unused, live (allocated) or released, and holds the value   *)
(* of the limbs written to it.                                             *)
(***************************************************************************)
\* Buffers the two client objects can point at, and the count up to which
\* the allocations nothing points at any more are counted.
MaxBufs == 4
MaxLeak == 2

BufIds == 1 .. MaxBufs
Names == {"a", "b"}
\* The words the client constructs and assigns, and the values it lets a
\* sum take: those words, and the sum of MAX_WORD and MAX_WORD, which leaves
\* the word.
StoreWords == {0 - 1, 0, MAX_WORD}
StoreValues == StoreWords \cup {MAX_WORD + MAX_WORD}

VARIABLES sv, heap, leaked, uaf, dbl, sfault, sop, uninit
storeVars == <<sv, heap, leaked, uaf, dbl, sfault, sop, uninit>>

NoBuf == [st |-> "unused", val |-> 0]
EmptyHeap == [i \in BufIds |-> NoBuf]
\* An object that is not constructed.
Dead == [alive |-> FALSE, holdsLarge |-> FALSE, active |-> "small",
         small |-> 0, ptr |-> 0]
NoOp == [name |-> "none", dst |-> "a", src |-> "a", srcVal |-> 0,
         srcLarge |-> FALSE, dstLarge |-> FALSE]

\* |_mp_size| of a value: the number of limbs of its magnitude.
mpzSize(v) == Len(Limbs(AbsInt(v)))
\* The _mp_alloc of a buffer that holds a value: at least its size.
BufCap == mpzSize(MaxMag)

Fresh(h) == CHOOSE i \in BufIds :
                /\ h[i].st = "unused"
                /\ \A j \in BufIds : h[j].st = "unused" => i <= j
\* (*__gmp_allocate_func)(n): a buffer not in use, with the limbs of val
\* written to it.
mpzAllocate(h, val) == [h EXCEPT ![Fresh(h)] = [st |-> "live", val |-> val]]

\* The outcome of a GMP call that stores a value: the heap after it, the
\* _mp_d of the destination, whether a released buffer was written or read,
\* whether a released buffer was released again.  ok = FALSE: the process
\* has terminated.
SOut(h, p, u, d) == [ok |-> TRUE, heap |-> h, ptr |-> p, uaf |-> u, dbl |-> d]
SFault(h) == [ok |-> FALSE, heap |-> h, ptr |-> 0, uaf |-> FALSE, dbl |-> FALSE]

\* What a pointer stands for: the buffer it was set to, or, for an
\* indeterminate one, any buffer in use, or (0) memory that is no buffer of a
\* client object.
Targets(h, ptr) ==
    IF ptr # 0 THEN {ptr}
    ELSE {i \in BufIds : h[i].st # "unused"} \cup {0}

\* The limbs of val copied through the pointer t (MPN_COPY in mpz_set).  A
\* pointer into memory that is no client buffer: a fault, or memory nothing
\* else uses, which the destination has from then on.
mpzWrite(h, t, val) ==
    IF t = 0
    THEN {SFault(h), SOut(mpzAllocate(h, val), Fresh(h), FALSE, FALSE)}
    ELSE {SOut([h EXCEPT ![t].val = val], t, h[t].st = "released", FALSE)}

\* _mpz_realloc on the pointer t: the allocator aborts on a pointer it did
\* not return; else the block grows in place, or moves and the old one is
\* released.
mpzRealloc(h, t, val) ==
    IF t = 0 THEN {SFault(h)}
    ELSE mpzWrite(h, t, val) \cup
         {SOut(mpzAllocate([h EXCEPT ![t].st = "released"], val),
               Fresh(h), FALSE, h[t].st = "released")}

\* mpz_set(dest, src) on a destination whose fields hold alloc and ptr:
\* with _mp_alloc = 0 a buffer is allocated; with _mp_alloc at least the
\* size of the source the limbs are copied through _mp_d; otherwise _mp_d is
\* reallocated first.
mpz_set(h, alloc, ptr, val) ==
    IF alloc = 0
    THEN {SOut(mpzAllocate(h, val), Fresh(h), FALSE, FALSE)}
    ELSE IF alloc >= mpzSize(val)
    THEN UNION { mpzWrite(h, t, val) : t \in Targets(h, ptr) }
    ELSE UNION { mpzRealloc(h, t, val) : t \in Targets(h, ptr) }

\* The _mp_alloc an object whose bytes were never written can hold: zero,
\* more than any size, less than any size.
IndetAlloc == {0, BufCap, 0 - 1}

\* SlowMPInt::SlowMPInt(const SlowMPInt &) on storage whose bytes were never
\* written (a temporary, a return slot): mpz_set with no mpz_init before it.
SlowMPIntCopyInto(h, val) ==
    UNION { mpz_set(h, al, 0, val) : al \in IndetAlloc }

\* The end of the lifetime of a temporary the copy constructor built by o
\* (mpz_set with no mpz_init before it: raw) on the heap h0: a
\* buffer allocated for it is pointed at by nothing any more.  leak counts
\* the allocations lost.
Retire(h0, o) ==
    IF o.ok /\ o.ptr # 0 /\ h0[o.ptr].st = "unused"
    THEN [ok |-> TRUE, heap |-> [o.heap EXCEPT ![o.ptr] = NoBuf],
          leak |-> 1, uaf |-> o.uaf, dbl |-> o.dbl, raw |-> TRUE]
    ELSE [ok |-> o.ok, heap |-> o.heap, leak |-> 0, uaf |-> o.uaf,
          dbl |-> o.dbl, raw |-> TRUE]

\* The value a stored Value holds: the word, or the limbs _mp_d points at.
ValueOf(h, v) == IF v.holdsLarge THEN h[v.ptr].val ELSE v.small
\* A large Value is read after its buffer was released.
ReadsReleased(h, v) == v.holdsLarge /\ h[v.ptr].st = "released"

\* MPInt::operator detail::SlowMPInt as a temporary: SlowMPInt(getSmall())
\* allocates (mpz_init, mpz_set_si); getLarge() returned by value is copied
\* into the return slot.
toSlowTemp(h, v) ==
    IF ~v.holdsLarge
    THEN {[ok |-> TRUE, heap |-> h, leak |-> 1, uaf |-> FALSE, dbl |-> FALSE,
           raw |-> FALSE]}
    ELSE { [Retire(h, o) EXCEPT !.uaf = @ \/ ReadsReleased(h, v)] :
           o \in SlowMPIntCopyInto(h, ValueOf(h, v)) }

\* MPInt::MPInt(int64_t) on a new object.
MPIntFromWord(w) == [alive |-> TRUE, holdsLarge |-> FALSE, active |-> "small",
                     small |-> w, ptr |-> 0]

\* MPInt::initSmall with the discriminant left as it was.
initSmallKeepTag(v, o) == [v EXCEPT !.active = "small", !.small = o]

\* MPInt::initSmall: ~SlowMPInt() on a large Value (it releases nothing:
\* SlowMPInt declares no destructor), valSmall = o, holdsLarge = false.
initSmall(v, o) ==
    [v EXCEPT !.active = "small", !.small = o, !.holdsLarge = FALSE]

\* MPInt::initLarge with a source of value val whose _mp_d is sptr: the
\* copy constructor by placement new over a small Value, whose bytes are
\* what is in the union; SlowMPInt's implicit copy assignment, which copies
\* _mp_alloc, _mp_size and _mp_d themselves, over a large one.  raw: mpz_set
\* has run on an mpz_t on which no mpz_init had run.
initLarge(h, v, val, sptr) ==
    IF ~v.holdsLarge
    THEN { [ok |-> o.ok, heap |-> o.heap, uaf |-> o.uaf, dbl |-> o.dbl,
            raw |-> TRUE,
            v  |-> [v EXCEPT !.active = "large", !.holdsLarge = TRUE,
                             !.ptr = o.ptr]] :
           o \in mpz_set(h, v.small, v.ptr, val) }
    ELSE { [ok |-> TRUE, heap |-> h, uaf |-> FALSE, dbl |-> FALSE,
            raw |-> FALSE,
            v  |-> [v EXCEPT !.active = "large", !.holdsLarge = TRUE,
                             !.ptr = sptr]] }

(***************************************************************************)
(* The client.  x and y are its two Values, r the Value the last           *)
(* operation returned, op the name of that operation, lhs and rhs the      *)
(* operands it was applied to, out the words it returned beside r, and     *)
(* crashed whether the process has terminated.  The client applies one     *)
(* operation to x and y, then stores the result in x or in y or drops it,  *)
(* and goes on.                                                            *)
(***************************************************************************)
VARIABLES x, y, r, op, lhs, rhs, out, crashed
clientVars == <<x, y, r, op, lhs, rhs, out, crashed>>
vars == <<x, y, r, op, lhs, rhs, out, crashed,
          sv, heap, leaked, uaf, dbl, sfault, sop, uninit>>

\* No object of the storage layer exists.
StoreIdle ==
    /\ sv = [n \in Names |-> Dead]
    /\ heap = EmptyHeap
    /\ leaked = 0
    /\ uaf = FALSE
    /\ dbl = FALSE
    /\ sfault = FALSE
    /\ sop = NoOp
    /\ uninit = FALSE

\* The outcomes the model follows: large values within MaxMag.
InBounds(S) == \A o \in S : AbsInt(o.v.val) <= MaxMag

\* MPInt x(a), y(b); MPInt r;
Init ==
    /\ x \in {Small(w) : w \in Words}
    /\ y \in {Small(w) : w \in Words}
    /\ r = Small(0)
    /\ op = "init"
    /\ lhs = Small(0)
    /\ rhs = Small(0)
    /\ out = <<>>
    /\ crashed = FALSE
    /\ StoreIdle

\* The client holds no result.
Idle == op \in {"init", "assign", "discard"}

\* r = <operation>(x, y), with S the outcomes of the operation.
Apply(name, S) ==
    /\ ~crashed
    /\ Idle
    /\ InBounds(S)
    /\ \E o \in S :
          /\ r' = o.v
          /\ crashed' = ~o.ok
    /\ op' = name
    /\ lhs' = x
    /\ rhs' = y
    /\ out' = <<>>
    /\ UNCHANGED <<x, y>>
    /\ UNCHANGED storeVars

OpAdd      == Apply("add", MPIntAdd(x, y))
OpSub      == Apply("sub", MPIntSub(x, y))
OpMul      == Apply("mul", MPIntMul(x, y))
OpDiv      == Apply("div", MPIntDiv(x, y))
OpRem      == Apply("rem", MPIntRem(x, y))
OpNeg      == Apply("neg", MPIntNeg(x))
OpAbs      == Apply("abs", abs(x))
OpCeilDiv  == Apply("ceilDiv", ceilDiv(x, y))
OpFloorDiv == Apply("floorDiv", floorDiv(x, y))
OpMod      == Apply("mod", mod(x, y))
OpGcd      == Apply("gcd", gcd(x, y))
OpLcm      == Apply("lcm", lcm(x, y))

\* x /= y
OpDivAssign ==
    /\ ~crashed
    /\ Idle
    /\ InBounds(MPIntDivAssign(x, y))
    /\ \E o \in MPIntDivAssign(x, y) :
          /\ x' = (IF o.ok THEN o.v ELSE x)
          /\ r' = o.v
          /\ crashed' = ~o.ok
    /\ op' = "divAssign"
    /\ lhs' = x
    /\ rhs' = y
    /\ out' = <<>>
    /\ UNCHANGED y
    /\ UNCHANGED storeVars

\* The differential test: the operator on two small Values, and the same
\* operator of SlowMPInt on SlowMPInt(a), SlowMPInt(b).
FastOp(name, a, b) ==
    CASE name = "+" -> MPIntAdd(a, b)
      [] name = "-" -> MPIntSub(a, b)
      [] name = "*" -> MPIntMul(a, b)
      [] name = "/" -> MPIntDiv(a, b)
      [] name = "%" -> MPIntRem(a, b)

SlowOp(name, a, b) ==
    CASE name = "+" -> SlowAdd(a, b)
      [] name = "-" -> SlowSub(a, b)
      [] name = "*" -> SlowMul(a, b)
      [] name = "/" -> SlowDiv(a, b)
      [] name = "%" -> SlowRem(a, b)

\* The in-place operators by name, and the binary operator each stands for.
InPlaceOps == {"+=", "-=", "*=", "/=", "%="}
BinaryOf(name) ==
    CASE name = "+=" -> "+"
      [] name = "-=" -> "-"
      [] name = "*=" -> "*"
      [] name = "/=" -> "/"
      [] name = "%=" -> "%"

\* The name under which the form with a native word on the right is recorded.
WordForm(name) ==
    CASE name = "+=" -> "+=w"
      [] name = "-=" -> "-=w"
      [] name = "*=" -> "*=w"
      [] name = "/=" -> "/=w"
      [] name = "%=" -> "%=w"

InPlaceOp(name, a, b) ==
    CASE name = "+=" -> MPIntAddAssign(a, b)
      [] name = "-=" -> MPIntSubAssign(a, b)
      [] name = "*=" -> MPIntMulAssign(a, b)
      [] name = "/=" -> MPIntDivAssign(a, b)
      [] name = "%=" -> MPIntRemAssign(a, b)

\* operator+, -, *, /, % (const MPInt &a, int64_t b): a op MPInt(b)
MPIntOpWord(name, a, b) == FastOp(name, a, Small(b))

\* operator+=, -=, *=, /=, %= (MPInt &a, int64_t b): a = a op b
MPIntOpAssignWord(name, a, b) ==
    LET store(t) == MPIntAssign(a, t)
    IN  Bind(MPIntOpWord(BinaryOf(name), a, b), store)

\* MPInt::operator++ : *this += 1;  MPInt::operator-- : *this -= 1
MPIntInc(a) == MPIntOpAssignWord("+=", a, 1)
MPIntDec(a) == MPIntOpAssignWord("-=", a, 1)

\* x op= y, and beside it r = x op y on the x before.
OpInPlace ==
    /\ ~crashed
    /\ Idle
    /\ \E name \in InPlaceOps :
          /\ name \in {"/=", "%="} => y.val # 0
          /\ InBounds(InPlaceOp(name, x, y))
          /\ InBounds(FastOp(BinaryOf(name), x, y))
          /\ \E o \in InPlaceOp(name, x, y),
                b \in FastOp(BinaryOf(name), x, y) :
                /\ x' = (IF o.ok THEN o.v ELSE x)
                /\ r' = b.v
                /\ crashed' = ~(o.ok /\ b.ok)
          /\ op' = name
    /\ lhs' = x
    /\ rhs' = y
    /\ out' = <<>>
    /\ UNCHANGED y
    /\ UNCHANGED storeVars

\* x op= w with w the word of a small y, and beside it r = x op w.
OpInPlaceWord ==
    /\ ~crashed
    /\ Idle
    /\ isSmall(y)
    /\ \E name \in InPlaceOps :
          /\ name \in {"/=", "%="} => y.val # 0
          /\ InBounds(MPIntOpAssignWord(name, x, y.val))
          /\ \E o \in MPIntOpAssignWord(name, x, y.val),
                b \in MPIntOpWord(BinaryOf(name), x, y.val) :
                /\ x' = (IF o.ok THEN o.v ELSE x)
                /\ r' = b.v
                /\ crashed' = ~(o.ok /\ b.ok)
          /\ op' = WordForm(name)
    /\ lhs' = x
    /\ rhs' = y
    /\ out' = <<>>
    /\ UNCHANGED y
    /\ UNCHANGED storeVars

\* ++x, and beside it r = x + 1;  --x, and r = x - 1.
OpIncDec ==
    /\ ~crashed
    /\ Idle
    /\ \E name \in {"++", "--"} :
          LET S == IF name = "++" THEN MPIntInc(x) ELSE MPIntDec(x)
              B == MPIntOpWord(IF name = "++" THEN "+" ELSE "-", x, 1)
          IN  /\ InBounds(S)
              /\ \E o \in S, b \in B :
                    /\ x' = (IF o.ok THEN o.v ELSE x)
                    /\ r' = b.v
                    /\ crashed' = ~(o.ok /\ b.ok)
              /\ op' = name
    /\ lhs' = x
    /\ rhs' = Small(1)
    /\ out' = <<>>
    /\ UNCHANGED y
    /\ UNCHANGED storeVars

OpDivByPositive == Apply("divByPositive", divByPositive(x, y))

\* x.divByPositiveInPlace(y)
OpDivByPositiveInPlace ==
    /\ ~crashed
    /\ Idle
    /\ InBounds(divByPositiveInPlace(x, y))
    /\ \E o \in divByPositiveInPlace(x, y) :
          /\ x' = (IF o.ok THEN o.v ELSE x)
          /\ r' = o.v
          /\ crashed' = ~o.ok
    /\ op' = "divByPositiveInPlace"
    /\ lhs' = x
    /\ rhs' = y
    /\ out' = <<>>
    /\ UNCHANGED y
    /\ UNCHANGED storeVars

Differential ==
    /\ ~crashed
    /\ Idle
    /\ isSmall(x) /\ isSmall(y)
    /\ \E name \in {"+", "-", "*", "/", "%"} :
          /\ name \in {"/", "%"} => y.val # 0
          /\ InBounds(FastOp(name, x, y))
          /\ \E o \in FastOp(name, x, y), s \in SlowOp(name, x.val, y.val) :
                /\ r' = o.v
                /\ crashed' = ~o.ok
                /\ out' = <<s.v>>
          /\ op' = name
    /\ lhs' = x
    /\ rhs' = y
    /\ UNCHANGED <<x, y>>
    /\ UNCHANGED storeVars

\* int64_t w = int64FromMPInt(x); r = mpintFromInt64(w);
OpToInt64 ==
    /\ ~crashed
    /\ Idle
    /\ out' = <<int64FromMPInt(x)>>
    /\ r' = mpintFromInt64(int64FromMPInt(x))
    /\ op' = "int64"
    /\ lhs' = x
    /\ rhs' = y
    /\ UNCHANGED <<x, y, crashed>>
    /\ UNCHANGED storeVars

\* x <cmp> y; and, with w the word of a small y: x <cmp> w, x <cmp> MPInt(w),
\* w <cmp> x, MPInt(w) <cmp> x.  out holds the truth values in this order.
OpCompare ==
    /\ ~crashed
    /\ Idle
    /\ \E name \in CmpOps :
          /\ op' = name
          /\ \E vv \in MPIntCmp(name, x, y) :
                IF isLarge(y)
                THEN /\ out' = <<vv.v>>
                     /\ crashed' = ~vv.ok
                ELSE \E xw \in MPIntCmp(name, x, Small(y.val)),
                        wx \in MPIntCmp(name, Small(y.val), x) :
                        /\ out' = <<vv.v, MPIntCmpWord(name, x, y.val), xw.v,
                                    WordCmpMPInt(name, y.val, x), wx.v>>
                        /\ crashed' = ~(vv.ok /\ xw.ok /\ wx.ok)
    /\ lhs' = x
    /\ rhs' = y
    /\ UNCHANGED <<x, y, r>>
    /\ UNCHANGED storeVars

\* hash_value(x), hash_value(y)
OpHash ==
    /\ ~crashed
    /\ Idle
    /\ out' = <<hash_value(x), hash_value(y)>>
    /\ op' = "hash"
    /\ lhs' = x
    /\ rhs' = y
    /\ UNCHANGED <<x, y, r, crashed>>
    /\ UNCHANGED storeVars

\* x = r; r = MPInt();
AssignX ==
    /\ ~crashed
    /\ ~Idle
    /\ \E o \in MPIntAssign(x, r) :
          /\ x' = (IF o.ok THEN o.v ELSE x)
          /\ crashed' = ~o.ok
    /\ r' = Small(0)
    /\ op' = "assign"
    /\ lhs' = Small(0)
    /\ rhs' = Small(0)
    /\ out' = <<>>
    /\ UNCHANGED y
    /\ UNCHANGED storeVars

\* y = r; r = MPInt();
AssignY ==
    /\ ~crashed
    /\ ~Idle
    /\ \E o \in MPIntAssign(y, r) :
          /\ y' = (IF o.ok THEN o.v ELSE y)
          /\ crashed' = ~o.ok
    /\ r' = Small(0)
    /\ op' = "assign"
    /\ lhs' = Small(0)
    /\ rhs' = Small(0)
    /\ out' = <<>>
    /\ UNCHANGED x
    /\ UNCHANGED storeVars

\* r = MPInt();
Discard ==
    /\ ~crashed
    /\ ~Idle
    /\ r' = Small(0)
    /\ op' = "discard"
    /\ lhs' = Small(0)
    /\ rhs' = Small(0)
    /\ out' = <<>>
    /\ UNCHANGED <<x, y, crashed>>
    /\ UNCHANGED storeVars

Next ==
    \/ OpAdd \/ OpSub \/ OpMul \/ OpDiv \/ OpRem
    \/ OpNeg \/ OpAbs
    \/ OpCeilDiv \/ OpFloorDiv \/ OpMod \/ OpGcd \/ OpLcm
    \/ OpDivAssign
    \/ Differential
    \/ OpToInt64 \/ OpHash
    \/ OpCompare
    \/ AssignX \/ AssignY \/ Discard

Spec == Init /\ [][Next]_vars

\* The client of the arithmetic: the operators and helpers in their binary
\* and in-place forms, applied in any order to the results of one another.
ArithNext ==
    \/ OpAdd \/ OpSub \/ OpMul \/ OpDiv \/ OpRem
    \/ OpNeg \/ OpAbs
    \/ OpCeilDiv \/ OpFloorDiv \/ OpMod \/ OpGcd \/ OpLcm
    \/ OpDivAssign
    \/ OpDivByPositive \/ OpDivByPositiveInPlace
    \/ OpInPlace \/ OpInPlaceWord \/ OpIncDec
    \/ AssignX \/ AssignY \/ Discard

ArithSpec == Init /\ [][ArithNext]_vars

\* The client of the word primitives: math::AddOverflow, SubOverflow and
\* MulOverflow on the words of x and y, out holding Result and the flag
\* returned.
OpWordPrimitive(name, res) ==
    /\ ~crashed
    /\ Idle
    /\ isSmall(x) /\ isSmall(y)
    /\ op' = name
    /\ out' = <<res.Result, res.overflow>>
    /\ lhs' = x
    /\ rhs' = y
    /\ UNCHANGED <<x, y, r, crashed>>
    /\ UNCHANGED storeVars

OpAddOverflow == OpWordPrimitive("AddOverflow", AddOverflow(x.val, y.val))
OpSubOverflow == OpWordPrimitive("SubOverflow", SubOverflow(x.val, y.val))
OpMulOverflow == OpWordPrimitive("MulOverflow", MulOverflow(x.val, y.val))

WordNext == OpAddOverflow \/ OpSubOverflow \/ OpMulOverflow \/ Discard

WordSpec == Init /\ [][WordNext]_vars

(***************************************************************************)
(* The client of the storage layer: two objects a and b, constructed,      *)
(* copied, assigned, added to and destroyed.                               *)
(***************************************************************************)
Min(i, j) == IF i <= j THEN i ELSE j

\* MPInt a(v), b(w);
StoreInit ==
    /\ x = Small(0)
    /\ y = Small(0)
    /\ r = Small(0)
    /\ op = "init"
    /\ lhs = Small(0)
    /\ rhs = Small(0)
    /\ out = <<>>
    /\ crashed = FALSE
    /\ sv \in [Names -> {MPIntFromWord(w) : w \in StoreWords}]
    /\ heap = EmptyHeap
    /\ leaked = 0
    /\ uaf = FALSE
    /\ dbl = FALSE
    /\ sfault = FALSE
    /\ sop = NoOp
    /\ uninit = FALSE

\* The state after an operation that went through: the objects nsv, the
\* heap h, lk allocations lost by temporaries, raw whether mpz_set has run
\* on storage no mpz_init had initialised.  A live buffer that no object
\* points at any more is lost too: nothing can release it.  Buffers are
\* identified up to renaming: the one a points at is named first.
Commit(nsv, h, lk, u, d, raw) ==
    LET pa   == IF nsv["a"].alive THEN nsv["a"].ptr ELSE 0
        pb   == IF nsv["b"].alive THEN nsv["b"].ptr ELSE 0
        refs == {pa, pb} \ {0}
        lost == {i \in BufIds : h[i].st = "live" /\ i \notin refs}
        first  == Fresh(EmptyHeap)
        second == Fresh([EmptyHeap EXCEPT ![first].st = "live"])
        ren(q) == IF q = 0 THEN 0 ELSE IF q = pa THEN first ELSE second
        buf(q) == IF h[q].st = "released" THEN [h[q] EXCEPT !.val = 0]
                  ELSE h[q]
    IN  /\ sv' = [n \in Names |-> [nsv[n] EXCEPT !.ptr = ren(IF n = "a" THEN pa ELSE pb)]]
        /\ heap' = [i \in BufIds |->
                      IF i = first /\ pa # 0 THEN buf(pa)
                      ELSE IF i = second /\ pb # 0 /\ pb # pa THEN buf(pb)
                      ELSE NoBuf]
        /\ leaked' = Min(leaked + lk + Cardinality(lost), MaxLeak)
        /\ uaf' = (uaf \/ u)
        /\ dbl' = (dbl \/ d)
        /\ sfault' = FALSE
        /\ uninit' = (uninit \/ raw)

\* The process has terminated inside the operation: inside mpz_set on
\* storage that was never initialised, the one place that can fault.
Fault ==
    /\ sfault' = TRUE
    /\ uninit' = TRUE
    /\ UNCHANGED <<sv, heap, leaked, uaf, dbl>>

\* The operation taken last: its name and, of a construction, a copy and an
\* assignment, its operands as they were before it.
Record(name, dst, src) ==
    sop' = IF name \in {"destroy", "addAssign"}
           THEN [NoOp EXCEPT !.name = name]
           ELSE [name |-> name, dst |-> dst, src |-> src,
                 srcVal |-> ValueOf(heap, sv[src]),
                 srcLarge |-> sv[src].holdsLarge,
                 dstLarge |-> sv[dst].alive /\ sv[dst].holdsLarge]

\* The process goes on: it has not terminated, and has not touched a buffer
\* that was released (after which nothing is known of it).
Running == ~sfault /\ ~uaf /\ ~dbl

\* MPInt n(w);
SConstruct ==
    /\ Running
    /\ \E n \in Names, w \in StoreWords :
          /\ ~sv[n].alive
          /\ Record("construct", n, n)
          /\ Commit([sv EXCEPT ![n] = MPIntFromWord(w)], heap, 0, FALSE, FALSE, FALSE)
    /\ UNCHANGED clientVars

\* MPInt::~MPInt: ~SlowMPInt() on a large Value, which releases nothing.
SDestroy ==
    /\ Running
    /\ \E n \in Names :
          /\ sv[n].alive
          /\ Record("destroy", n, n)
          /\ Commit([sv EXCEPT ![n] = Dead], heap, 0, FALSE, FALSE, FALSE)
    /\ UNCHANGED clientVars

\* MPInt dst(src): valSmall(o.valSmall), holdsLarge(false), then
\* initLarge(o.valLarge) for a large source.  o.valSmall of a large source
\* is its _mp_alloc; _mp_d of the new object was never written.
SCopyConstruct ==
    /\ Running
    /\ \E dst \in Names, src \in Names :
          /\ ~sv[dst].alive
          /\ sv[src].alive
          /\ Record("copy", dst, src)
          /\ IF ~sv[src].holdsLarge
             THEN Commit([sv EXCEPT ![dst] = MPIntFromWord(sv[src].small)],
                         heap, 0, FALSE, FALSE, FALSE)
             ELSE \E o \in initLarge(heap, MPIntFromWord(BufCap),
                                     ValueOf(heap, sv[src]), sv[src].ptr) :
                     IF o.ok
                     THEN Commit([sv EXCEPT ![dst] = o.v], o.heap, 0,
                                 o.uaf \/ ReadsReleased(heap, sv[src]), o.dbl,
                                 o.raw)
                     ELSE Fault
    /\ UNCHANGED clientVars

\* dst = src;  MPInt::operator=(const MPInt &)
SAssign ==
    /\ Running
    /\ \E dst \in Names, src \in Names :
          /\ dst # src
          /\ sv[dst].alive
          /\ sv[src].alive
          /\ Record("assign", dst, src)
          /\ IF ~sv[src].holdsLarge
             THEN Commit([sv EXCEPT ![dst] = initSmall(sv[dst], sv[src].small)],
                         heap, 0, FALSE, FALSE, FALSE)
             ELSE \E o \in initLarge(heap, sv[dst], ValueOf(heap, sv[src]),
                                     sv[src].ptr) :
                     IF o.ok
                     THEN Commit([sv EXCEPT ![dst] = o.v], o.heap, 0,
                                 o.uaf \/ (~sv[dst].holdsLarge
                                             /\ ReadsReleased(heap, sv[src])),
                                 o.dbl, o.raw)
                     ELSE Fault
    /\ UNCHANGED clientVars

\* dst = w;  MPInt::operator=(int)
SAssignInt ==
    /\ Running
    /\ \E dst \in Names, w \in StoreWords :
          /\ sv[dst].alive
          /\ Record("assignInt", dst, dst)
          /\ Commit([sv EXCEPT ![dst] = initSmall(sv[dst], w)],
                    heap, 0, FALSE, FALSE, FALSE)
    /\ UNCHANGED clientVars

\* dst += src;  MPInt::operator+=(const MPInt &).  On the fallback path:
\* the two operands are converted to temporaries, SlowMPInt::operator+
\* allocates its result, MPInt(const SlowMPInt &) copies it into the
\* returned temporary (valLarge(val): the copy constructor on the storage
\* of the new object), and operator= stores that in *this.
SAddAssign ==
    /\ Running
    /\ \E dst \in Names, src \in Names :
          /\ dst # src
          /\ sv[dst].alive
          /\ sv[src].alive
          /\ Record("addAssign", dst, src)
          /\ LET a == ValueOf(heap, sv[dst])
                 b == ValueOf(heap, sv[src])
             IN  /\ (a + b) \in StoreValues
                 /\ IF ~sv[dst].holdsLarge /\ ~sv[src].holdsLarge
                       /\ (a + b) \in Words
                    THEN Commit([sv EXCEPT ![dst].small = a + b],
                                heap, 0, FALSE, FALSE, FALSE)
                    ELSE \E ta \in toSlowTemp(heap, sv[dst]) :
                         IF ~ta.ok THEN Fault
                         ELSE \E tb \in toSlowTemp(ta.heap, sv[src]) :
                         IF ~tb.ok THEN Fault
                         ELSE \E t \in SlowMPIntCopyInto(tb.heap, a + b) :
                         IF ~t.ok THEN Fault
                         ELSE \E o \in initLarge(t.heap, sv[dst], a + b, t.ptr) :
                         IF ~o.ok THEN Fault
                         ELSE Commit([sv EXCEPT ![dst] = o.v], o.heap,
                                     ta.leak + tb.leak + 1,
                                     ta.uaf \/ tb.uaf \/ t.uaf \/ o.uaf,
                                     ta.dbl \/ tb.dbl \/ t.dbl \/ o.dbl,
                                     TRUE)
    /\ UNCHANGED clientVars

StoreNext ==
    \/ SConstruct \/ SDestroy \/ SCopyConstruct
    \/ SAssign \/ SAssignInt \/ SAddAssign

StoreSpec == StoreInit /\ [][StoreNext]_vars

(***************************************************************************)
(* Properties.                                                             *)
(***************************************************************************)
\* q is the floor, the ceiling of a / b (b # 0).
IsFloor(q, a, b) == IF b > 0 THEN q * b <= a /\ a < (q + 1) * b
                    ELSE q * b >= a /\ a > (q + 1) * b
IsCeil(q, a, b)  == IF b > 0 THEN (q - 1) * b < a /\ a <= q * b
                    ELSE (q - 1) * b > a /\ a >= q * b
\* g is the greatest common divisor of the non-negative a and b.
IsGcd(g, a, b) ==
    /\ g >= 0
    /\ (a = 0 /\ b = 0) => g = 0
    /\ (a # 0 \/ b # 0) =>
          /\ g > 0 /\ a % g = 0 /\ b % g = 0
          /\ \A d \in 1 .. MaxMag : (a % d = 0 /\ b % d = 0) => d <= g

\* A result that stayed small is exact: every operation that does not reach
\* the fallback gives the mathematical result, ceilDiv of MIN_WORD by a
\* divisor above 1 and operator% of a negative dividend apart.
SmallResultsExact ==
    (~crashed /\ isSmall(lhs) /\ isSmall(rhs) /\ isSmall(r)) =>
        /\ op = "add" => r.val = lhs.val + rhs.val
        /\ op = "sub" => r.val = lhs.val - rhs.val
        /\ op = "mul" => r.val = lhs.val * rhs.val
        /\ (op \in {"div", "divAssign"} /\ rhs.val # 0)
              => r.val = TruncDiv(lhs.val, rhs.val)
        /\ (op = "floorDiv" /\ rhs.val # 0)
              => IsFloor(r.val, lhs.val, rhs.val)
        /\ (op = "ceilDiv" /\ rhs.val # 0
                /\ ~(lhs.val = MIN_WORD /\ rhs.val > 1))
              => IsCeil(r.val, lhs.val, rhs.val)
        /\ (op = "mod" /\ rhs.val > 0)
              => (0 <= r.val /\ r.val < rhs.val
                    /\ (lhs.val - r.val) % rhs.val = 0)
        /\ (op = "gcd" /\ lhs.val >= 0 /\ rhs.val >= 0)
              => IsGcd(r.val, lhs.val, rhs.val)
        /\ (op = "lcm" /\ (lhs.val # 0 \/ rhs.val # 0))
              => r.val * Euclid(AbsInt(lhs.val), AbsInt(rhs.val))
                     = AbsInt(lhs.val * rhs.val)

\* C1: for all words a and b, MPInt(a) + MPInt(b) is the exact sum a + b,
\* also when a + b is outside the word.
AddIsExactSum ==
    (op = "add" /\ ~crashed /\ isSmall(lhs) /\ isSmall(rhs))
        => r.val = lhs.val + rhs.val

\* C2: on two small operands a and b (b # 0 for / and %, MIN_WORD / -1
\* excluded) the result of the fast path of + - * / % is the result of the
\* same operator of SlowMPInt on the same two values; in particular a % b
\* agrees for negative a.
FastPathAgreesWithFallback ==
    (op \in {"+", "-", "*", "/", "%"} /\ ~crashed /\ isSmall(r)
        /\ ~divWouldOverflow(lhs.val, rhs.val))
        => r.val = out[1]

\* C3: MIN_WORD / -1 on two small operands, as operator/ and as operator/=,
\* is a large Value equal to -MIN_WORD; operator/= leaves it in the operand.
DivMinByMinusOnePromotes ==
    (op \in {"div", "divAssign"} /\ ~crashed
        /\ lhs = Small(MIN_WORD) /\ rhs = Small(0 - 1))
        => /\ isLarge(r)
           /\ r.val = 0 - MIN_WORD
           /\ op = "divAssign" => x = r

\* C4: for all words a and b # 0, in either representation, floorDiv(a, b)
\* is the floor of a / b.
FloorDivIsFloor ==
    (op = "floorDiv" /\ ~crashed /\ lhs.val \in Words /\ rhs.val \in Words
        /\ rhs.val # 0)
        => IsFloor(r.val, lhs.val, rhs.val)

\* C5: for all words a and b # 0, ceilDiv(MPInt(a), MPInt(b)) is the ceiling
\* of a / b; stated for the case the claim names, a positive divisor b (with
\* it the small path never promotes), a = MIN_WORD included.
CeilDivIsCeilPositiveDivisor ==
    (op = "ceilDiv" /\ ~crashed /\ isSmall(lhs) /\ isSmall(rhs)
        /\ rhs.val > 0)
        => IsCeil(r.val, lhs.val, rhs.val)

\* C6: for every dividend a and divisor d > 0, in either representation,
\* mod(a, d) is the r with 0 <= r < d and d dividing a - r.
ModIsEuclidean ==
    (op = "mod" /\ ~crashed /\ rhs.val > 0)
        => /\ 0 <= r.val /\ r.val < rhs.val
           /\ (lhs.val - r.val) % rhs.val = 0

\* C7: for all non-negative a and b, in either representation, gcd(a, b) is
\* the non-negative greatest common divisor, gcd(0, 0) = 0, gcd(a, 0) =
\* gcd(0, a) = a.
GcdIsGreatestCommonDivisor ==
    (op = "gcd" /\ ~crashed /\ lhs.val >= 0 /\ rhs.val >= 0)
        => IsGcd(r.val, lhs.val, rhs.val)

\* C8: for all words a and b (not both zero, where the quotient is not
\* defined), lcm(MPInt(a), MPInt(b)) is |a * b| / gcd(|a|, |b|) over the
\* integers, also when |a|, |b| or a * b is outside the word.
LcmIsExact ==
    (op = "lcm" /\ ~crashed /\ isSmall(lhs) /\ isSmall(rhs)
        /\ (lhs.val # 0 \/ rhs.val # 0))
        => r.val * Euclid(AbsInt(lhs.val), AbsInt(rhs.val))
               = AbsInt(lhs.val * rhs.val)

\* C9: conversion to the native word and back.  A Value whose value fits
\* the word converts to exactly that value, held small or large; a small
\* Value comes back as itself; the word converts back to itself; a large
\* Value outside the word converts to a word fixed by its value (the low
\* bits of its magnitude); and the conversion leaves the Value as it was,
\* so converting again gives the same word.
RoundTripNativeWord ==
    (op = "int64")
        => /\ out[1] \in Words
           /\ lhs.val \in Words => out[1] = lhs.val
           /\ isSmall(lhs) => r = lhs
           /\ int64FromMPInt(r) = out[1]
           /\ (AbsInt(out[1]) - AbsInt(lhs.val)) % Pow2(WordBits - 1) = 0
           /\ out[1] # 0 => Sgn(out[1]) = Sgn(lhs.val)
           /\ x = lhs

\* A large Value with a negative value that fits the word has been converted.
RoundTripWitness ==
    /\ op = "int64"
    /\ isLarge(lhs)
    /\ lhs.val \in Words
    /\ lhs.val < 0 - 1
    /\ out[1] = lhs.val

ComparisonsInPlaceExact ==
    (op \in CmpOps /\ ~crashed) =>
        /\ (isSmall(lhs) /\ isSmall(rhs))
              => out[1] = Cmp(op, lhs.val, rhs.val)
        /\ Len(out) = 5
              => /\ out[2] = Cmp(op, lhs.val, rhs.val)
                 /\ out[4] = Cmp(op, rhs.val, lhs.val)

\* C11: each of the six comparisons returns the comparison of the two
\* values for every combination of representations, and a comparison with a
\* native word, in either order, returns what the comparison with MPInt(word)
\* returns.
ComparisonsFollowValues ==
    (op \in CmpOps /\ ~crashed) =>
        /\ out[1] = Cmp(op, lhs.val, rhs.val)
        /\ Len(out) = 5 => (out[2] = out[3] /\ out[4] = out[5])

\* C12: once every Value has been destroyed, every allocation made for a
\* large representation has been released.
NoLeak ==
    (~sfault /\ \A n \in Names : ~sv[n].alive)
        => (leaked = 0 /\ \A i \in BufIds : heap[i].st # "live")

\* C13: no buffer is released twice, and no buffer is read or written after
\* it was released.
NoDoubleRelease == ~dbl /\ ~uaf

\* C14: after every operation the discriminant of every Value says which
\* member of its union was constructed last, so that the assertions of
\* getSmall() and getLarge(), called where the discriminant was tested, hold
\* of the storage too; and a Value constructed from a word is small.
TagAgreesWithStorage ==
    \A n \in Names :
        sv[n].alive =>
            /\ sv[n].holdsLarge <=> (sv[n].active = "large")
            /\ (sop.name = "construct" /\ sop.dst = n) => ~sv[n].holdsLarge

\* A Value that was large has been assigned a small one and is small.
TagWitness ==
    /\ sop.name \in {"assign", "assignInt"}
    /\ sop.dstLarge
    /\ ~sfault
    /\ ~sv[sop.dst].holdsLarge
    /\ sv[sop.dst].active = "small"

\* C19: after copy-constructing or copy-assigning a Value from a large
\* source, the two have the same value, each points at a buffer of its own,
\* and the source is large with the value it had.
CopyDuplicatesStorage ==
    (sop.name \in {"copy", "assign"} /\ sop.srcLarge /\ ~sfault)
        => /\ sv[sop.dst].holdsLarge
           /\ sv[sop.src].holdsLarge
           /\ ValueOf(heap, sv[sop.dst]) = ValueOf(heap, sv[sop.src])
           /\ ValueOf(heap, sv[sop.src]) = sop.srcVal
           /\ sv[sop.dst].ptr # sv[sop.src].ptr

\* The operations whose precondition is tested on operands in place fail
\* when it does not hold: divByPositive and divByPositiveInPlace on a divisor
\* that is not positive, gcd on a negative operand, and mod on a small
\* divisor that is not positive.
PreconditionsAssertInPlace ==
    /\ (op \in {"divByPositive", "divByPositiveInPlace"} /\ rhs.val <= 0)
          => crashed
    /\ (op = "gcd" /\ (lhs.val < 0 \/ rhs.val < 0)) => crashed
    /\ (op = "mod" /\ isSmall(rhs) /\ rhs.val <= 0) => crashed

\* C15: divByPositive and divByPositiveInPlace with a divisor <= 0, gcd with
\* a negative operand and mod with a divisor <= 0 end in a failed assertion
\* and return nothing, with operands in either representation.
PreconditionViolationsFail ==
    /\ (op \in {"divByPositive", "divByPositiveInPlace"} /\ rhs.val <= 0)
          => crashed
    /\ (op = "gcd" /\ (lhs.val < 0 \/ rhs.val < 0)) => crashed
    /\ (op = "mod" /\ rhs.val <= 0) => crashed

\* divByPositive and divByPositiveInPlace on two small operands, the divisor
\* positive: the truncated quotient, held small.
DivByPositiveSmallExact ==
    (op \in {"divByPositive", "divByPositiveInPlace"} /\ ~crashed
        /\ isSmall(lhs) /\ isSmall(rhs) /\ rhs.val > 0)
        => /\ r = Small(TruncDiv(lhs.val, rhs.val))
           /\ op = "divByPositiveInPlace" => x = r

\* C16: for every dividend a in either representation and every divisor
\* d > 0, divByPositive(a, d) and divByPositiveInPlace give the truncated
\* quotient a / d (divByPositiveInPlace leaves it in a), and on two small
\* operands the result is small.
DivByPositiveIsTruncDiv ==
    (op \in {"divByPositive", "divByPositiveInPlace"} /\ ~crashed
        /\ rhs.val > 0)
        => /\ r.val = TruncDiv(lhs.val, rhs.val)
           /\ (isSmall(lhs) /\ isSmall(rhs)) => isSmall(r)
           /\ op = "divByPositiveInPlace" => x = r

\* The names under which the operations are recorded, by what they compute.
AddNames == {"add", "+=", "+=w", "++"}
SubNames == {"sub", "-=", "-=w", "--"}
MulNames == {"mul", "*=", "*=w"}
DivNames == {"div", "rem", "ceilDiv", "floorDiv", "divAssign",
             "/=", "%=", "/=w", "%=w"}
InPlaceNames == {"+=", "-=", "*=", "/=", "%=",
                 "+=w", "-=w", "*=w", "/=w", "%=w", "++", "--"}
\* The Value the operation taken last left its result in.
Result == IF op \in InPlaceNames \cup {"divAssign", "divByPositiveInPlace"}
          THEN x ELSE r

\* C17: after each of +, -, *, unary -, ++ and -- in the binary and the
\* in-place form, on operands in any mix of representations that earlier
\* operations produced, the result is the exact integer result; by induction
\* every Value is the exact result of the sequence that produced it.
OverflowNeverObservable ==
    ~crashed =>
        /\ op \in AddNames => Result.val = lhs.val + rhs.val
        /\ op \in SubNames => Result.val = lhs.val - rhs.val
        /\ op \in MulNames => Result.val = lhs.val * rhs.val
        /\ op = "neg" => Result.val = 0 - lhs.val

\* The fast path of the operation op on the words a and b gives a word:
\* it neither overflows nor meets MIN_WORD / -1.
FastPathFits(a, b) ==
    CASE op \in AddNames -> (a + b) \in Words
      [] op \in SubNames -> (a - b) \in Words
      [] op \in MulNames -> (a * b) \in Words
      [] op \in DivNames -> ~divWouldOverflow(a, b)
      [] op \in {"neg", "abs"} -> a # MIN_WORD
      [] op = "lcm" -> /\ AbsInt(a) \in Words
                       /\ AbsInt(b) \in Words
                       /\ (AbsInt(a) * AbsInt(b)) \in Words
      [] OTHER -> TRUE

\* C18: an operator or helper returns a small Value exactly when its
\* operands are small and the fast path neither overflows nor meets
\* MIN_WORD / -1; with a large operand the result is large.  Hence no
\* in-place operator makes a large Value small.
PromotionProtocol ==
    (~Idle /\ ~crashed) =>
        /\ isSmall(Result) <=>
              /\ isSmall(lhs)
              /\ (op \in {"neg", "abs"} \/ isSmall(rhs))
              /\ FastPathFits(lhs.val, rhs.val)
        /\ (op \in InPlaceNames \cup {"divAssign", "divByPositiveInPlace"}
              /\ isLarge(lhs)) => isLarge(x)

\* The promotion protocol away from MIN_WORD % -1.
PromotionProtocolButRem ==
    (lhs.val = MIN_WORD /\ rhs.val = 0 - 1 /\ op \in {"rem", "%=", "%=w"})
        \/ PromotionProtocol

\* An in-place form whose result is small left the Value the binary form
\* returns.
InPlaceSmallAgrees ==
    (op \in InPlaceNames /\ ~crashed /\ isSmall(x)) => x = r

\* C20: after a op= b, with b a Value or a native word (b # 0 for / and %),
\* a has the value and the discriminant of a op b on the a before; ++a
\* and --a those of a + 1 and a - 1; and b is as it was.
InPlaceAgreesWithBinary ==
    (op \in InPlaceNames /\ ~crashed)
        => /\ x.val = r.val
           /\ x.holdsLarge = r.holdsLarge
           /\ op \notin {"++", "--"} => y = rhs

\* The exact result of the word primitive taken last.
ExactWordResult ==
    CASE op = "AddOverflow" -> lhs.val + rhs.val
      [] op = "SubOverflow" -> lhs.val - rhs.val
      [] op = "MulOverflow" -> lhs.val * rhs.val

\* C21: for all words x and y, AddOverflow, SubOverflow and MulOverflow
\* return true exactly when the exact result is outside the word, and store
\* in Result the word congruent to the exact result modulo 2^WordBits.
CheckedWordPrimitives ==
    (op \in {"AddOverflow", "SubOverflow", "MulOverflow"}) =>
        /\ out[2] = (ExactWordResult \notin Words)
        /\ out[1] \in Words
        /\ (out[1] - ExactWordResult) % WordMod = 0

\* A product equal to MIN_WORD has been computed and not flagged.
CheckedWordWitness ==
    /\ op = "MulOverflow"
    /\ lhs.val * rhs.val = MIN_WORD
    /\ out = <<MIN_WORD, FALSE>>

\* C22: on every path that creates a large representation the mpz_t has
\* been initialised by mpz_init before it is written or read: mpz_set never
\* runs on storage that no mpz_init has initialised.
LargeStorageInitialised == ~uninit

\* lcm on two small operands that are not both zero and with which nothing
\* promotes returns, and returns a non-negative Value, zero when an operand
\* is zero.
LcmTotalOnFastPath ==
    (op = "lcm" /\ isSmall(lhs) /\ isSmall(rhs)
        /\ (lhs.val # 0 \/ rhs.val # 0)
        /\ lhs.val # MIN_WORD /\ rhs.val # MIN_WORD
        /\ (AbsInt(lhs.val) * AbsInt(rhs.val)) \in Words)
        => /\ ~crashed
           /\ r.val >= 0
           /\ (lhs.val = 0 \/ rhs.val = 0) => r.val = 0

\* C23: for every pair of operands in either representation, zero operands
\* included, lcm(a, b) returns (no division by zero ends the process), the
\* result is non-negative, and it is zero when a or b is zero.
LcmIsTotal ==
    (op = "lcm")
        => /\ ~crashed
           /\ r.val >= 0
           /\ (lhs.val = 0 \/ rhs.val = 0) => r.val = 0

\* lcm of two small zeros returns.
LcmOfZerosReturns ==
    (op = "lcm" /\ lhs = Small(0) /\ rhs = Small(0)) => ~crashed

=============================================================================
